---------------------------- MODULE Spec2Model ----------------------------
(***************************************************************************)
(* A model of gg-shuffle (src/gg-shuffle.py): the session navigation state *)
(* of GGWindow (current video, history stack, displayed fields), the       *)
(* thumbnail disk cache with its 30 day expiry, and the background threads *)
(* of load_thumbnail_async that hand results to the GTK main loop through  *)
(* GLib.idle_add.                                                          *)
(*                                                                         *)
(* Python strings are sequences of tokens: "" is << >>, and the substring  *)
(* "watch?v=" and the character "&" are tokens of their own, so that       *)
(* extract_video_id is computed by splitting, as the code does.            *)
(* Python None, an absent file and the like are records with a kind field. *)
(* Rows carry id, title and url; description, view count, duration and     *)
(* upload date only feed two labels and are left out.                      *)
(***************************************************************************)
EXTENDS Integers, Sequences, FiniteSets, TLC

VARIABLES
    conn,                \* self.conn is not None
    view,                \* "init" | "welcome" | "main": which UI _build_ui built
    catalog,             \* the rows of table videos in the file at DB_PATH
    current_title,       \* self.current_title
    current_url,         \* self.current_url
    current_video_id,    \* self.current_video_id
    previous_video_ids,  \* self.previous_video_ids
    widgets,             \* title_lbl, url_entry, id_entry, ft_entry, prev_btn
    status,              \* the status bar message
    thumb,               \* what self.thumb shows
    threads,             \* the worker threads started by load_thumbnail_async
    idle,                \* callbacks queued with GLib.idle_add, oldest first
    files,               \* the cache directory: path -> file
    now,                 \* time.time(), in seconds
    events,              \* number of requests made so far
    limit,               \* number of requests a run may make (bounds the run)
    ticks,               \* number of clock steps so far (bounds the run)
    ev,                  \* the last request handled: its name and its pre-state
    is_updating_db,      \* self.is_updating_db
    db_threads,          \* the threads that run build_worker or update_worker
    db_idle,             \* their callbacks queued with GLib.idle_add, oldest first
    buttons              \* build_db_button and update_btn: what a click can do

vars == <<conn, view, catalog, current_title, current_url, current_video_id,
          previous_video_ids, widgets, status, thumb, threads, idle, files,
          now, events, limit, ticks, ev, is_updating_db, db_threads, db_idle,
          buttons>>

dbVars == <<is_updating_db, db_threads, db_idle, buttons>>
navVars == <<current_title, current_url, current_video_id, previous_video_ids>>
cacheVars == <<threads, idle, files>>
uiVars == <<conn, view, catalog, navVars, widgets, status, events, limit, ev,
            dbVars>>

----------------------------------------------------------------------------
(* Bounds of the model *)

\* requests (the initial load, shuffle, previous) of a run of the whole program
MaxEvents == 2
\* requests of a run that leaves the worker threads unscheduled
MaxRequests == 3
\* calls of load_thumbnail_async of a run of the thumbnail cache alone
MaxResolves == 2
\* clock steps per run
MaxTicks == 1
\* entries in the video list of one scrape
MaxEntries == 2

(* Program constants *)

CACHE_MAX_AGE_DAYS == 30
HISTORY_LIMIT == 50
THUMB_WIDTH == 320
THUMB_HEIGHT == 180
SECONDS_PER_DAY == 86400

----------------------------------------------------------------------------
(* Strings *)

EmptyStr == << >>
WATCH == "watch?v="
AMP == "&"

\* the video ids of the model
VideoIds == { <<"a">>, <<"b">> }

\* s.split(sep)[-1]: what follows the last occurrence of sep
AfterLast(s, sep) ==
    IF \E i \in 1..Len(s) : s[i] = sep
    THEN LET i == CHOOSE k \in 1..Len(s) :
                      s[k] = sep /\ \A j \in (k+1)..Len(s) : s[j] # sep
         IN SubSeq(s, i + 1, Len(s))
    ELSE s

\* s.split(sep)[0]: what precedes the first occurrence of sep
BeforeFirst(s, sep) ==
    IF \E i \in 1..Len(s) : s[i] = sep
    THEN LET i == CHOOSE k \in 1..Len(s) :
                      s[k] = sep /\ \A j \in 1..(k-1) : s[j] # sep
         IN SubSeq(s, 1, i - 1)
    ELSE s

\* split("watch?v=")[0] instead of [-1]: what precedes the marker
extract_video_id_before(url) ==
    IF \E i \in 1..Len(url) : url[i] = WATCH
    THEN BeforeFirst(BeforeFirst(url, WATCH), AMP)
    ELSE EmptyStr

extract_video_id(url) ==
    IF \E i \in 1..Len(url) : url[i] = WATCH
    THEN BeforeFirst(AfterLast(url, WATCH), AMP)
    ELSE EmptyStr

thumbnail_url(video_id) ==
    IF video_id # EmptyStr
    THEN <<"https://img.youtube.com/vi/">> \o video_id \o <<"/hqdefault.jpg">>
    ELSE EmptyStr

\* a row whose url is the short form of the link, without the marker
ScrapedRow_short_url(vid) ==
    [id |-> vid,
     title |-> <<"Episode ">> \o vid,
     url |-> <<"https://youtu.be/">> \o vid,
     columns |-> 7]

\* the row scrape_videos stores for an entry with id vid
ScrapedRow(vid) ==
    [id |-> vid,
     title |-> <<"Episode ">> \o vid,
     url |-> <<"https://www.youtube.com/", WATCH>> \o vid,
     columns |-> 7]

Rows == { ScrapedRow(v) : v \in VideoIds }

\* the titles the channel's video list may give for an id, on different days
EntryTitles(vid) == { <<"Episode ">> \o vid, <<"Renamed ">> \o vid }

\* the entries of a video list, and the lists of at most MaxEntries of them
Entries == UNION { [id : {v}, title : EntryTitles(v)] : v \in VideoIds }
EntryLists == UNION { [1..n -> Entries] : n \in 0..MaxEntries }

\* the values both scrapers insert for an entry, into a table of that many
\* columns
StoredRow(e, columns) ==
    [id |-> e.id, title |-> e.title,
     url |-> <<"https://www.youtube.com/", WATCH>> \o e.id,
     columns |-> columns]

\* INSERT OR IGNORE on the primary key id: a row with that id stays as it is
insert_or_ignore(rows, row) ==
    IF \E r \in rows : r.id = row.id THEN rows ELSE rows \cup {row}

\* INSERT OR REPLACE on the primary key id: a row with that id is deleted first
insert_or_replace(rows, row) ==
    { r \in rows : r.id # row.id } \cup {row}

\* scrape_videos, lines 71-98: the table after the loop over the entries
RECURSIVE scrape_videos_rows(_, _)
scrape_videos_rows(rows, entries) ==
    IF entries = << >>
    THEN rows
    ELSE scrape_videos_rows(insert_or_replace(rows, StoredRow(Head(entries), 7)),
                            Tail(entries))

\* scrape.py, main: the table after the loop over the entries
RECURSIVE scrape_main_rows(_, _)
scrape_main_rows(rows, entries) ==
    IF entries = << >>
    THEN rows
    ELSE scrape_main_rows(insert_or_ignore(rows, StoredRow(Head(entries), 3)),
                          Tail(entries))

\* fetch_random: any row of the table, or the "Unknown" tuple when it is empty
fetch_random(rows) ==
    IF rows # {}
    THEN { [title |-> r.title, url |-> r.url] : r \in rows }
    ELSE { [title |-> <<"Unknown">>, url |-> EmptyStr] }

\* SELECT ... FROM videos WHERE id = ?: the rows found (none or one)
select_by_id(rows, vid) == { r \in rows : r.id = vid }

----------------------------------------------------------------------------
(* Images, files and the cache directory *)

None == [kind |-> "None"]
Pixbuf(img, w, h) == [kind |-> "pixbuf", img |-> img, w |-> w, h |-> h]
\* _set_loading_placeholder: a gray 320x180 pixbuf
Placeholder == [kind |-> "placeholder", w |-> THUMB_WIDTH, h |-> THUMB_HEIGHT]
Unset == [kind |-> "unset"]

Jpeg(img, w, h) == [kind |-> "jpeg", img |-> img, w |-> w, h |-> h]
Garbage == [kind |-> "garbage"]     \* bytes that do not decode as an image
NoBytes == [kind |-> "empty"]       \* zero bytes: a file just opened for writing

\* width and height of the images the thumbnail server sends
SourceSizes == { <<480, 360>> }

NoFile == [kind |-> "absent"]
File(bytes, mtime, ino) ==
    [kind |-> "file", bytes |-> bytes, mtime |-> mtime, ino |-> ino]

\* md5 of the id names the file: one path per id
cache_path_for_video_id(video_id) == <<"thumbs/", "md5">> \o video_id \o <<".jpg">>

CachePaths == { cache_path_for_video_id(v) : v \in VideoIds }

MaxAgeSeconds == CACHE_MAX_AGE_DAYS * SECONDS_PER_DAY

\* an entry of exactly 30 days taken as valid
age_is_valid_inclusive(age_seconds) ==
    age_seconds <= CACHE_MAX_AGE_DAYS * SECONDS_PER_DAY

\* is_cache_valid after exists(): age_seconds / (24 * 3600) < CACHE_MAX_AGE_DAYS,
\* a division of reals, so the test is age_seconds < 30 * 86400
age_is_valid(age_seconds) == age_seconds < CACHE_MAX_AGE_DAYS * SECONDS_PER_DAY

\* GdkPixbuf.Pixbuf.new_from_file_at_scale(file, 320, 180, True): the image
\* scaled to fit the box, keeping its aspect ratio, sizes rounded to nearest
at_scale(bytes) ==
    IF bytes.h * THUMB_WIDTH > bytes.w * THUMB_HEIGHT
    THEN Pixbuf(bytes.img,
                (2 * bytes.w * THUMB_HEIGHT + bytes.h) \div (2 * bytes.h),
                THUMB_HEIGHT)
    ELSE Pixbuf(bytes.img,
                THUMB_WIDTH,
                (2 * bytes.h * THUMB_WIDTH + bytes.w) \div (2 * bytes.w))

\* download_and_cache_thumbnail, lines 182-188: the decoded image, scaled with
\* scale_simple(320, 180) when it exceeds the box in either dimension
decode_downloaded(data) ==
    IF data.w > THUMB_WIDTH \/ data.h > THUMB_HEIGHT
    THEN Pixbuf(data.img, THUMB_WIDTH, THUMB_HEIGHT)
    ELSE Pixbuf(data.img, data.w, data.h)

\* what urlopen(url).read() may return: the image the server has for the id in
\* the url, or bytes that are no image; "error" stands for an exception
ImageOf(url) == SubSeq(url, 2, Len(url) - 1)
Responses(url) ==
    { Jpeg(ImageOf(url), s[1], s[2]) : s \in SourceSizes } \cup { Garbage }

----------------------------------------------------------------------------
(* Worker threads of load_thumbnail_async *)

\* a thread: pc is "done" after the worker returned, "dead" after an exception
\* ended the thread; the other values name the call the thread makes next
Thread(pc, video_id, req) ==
    [pc |-> pc, video_id |-> video_id, req |-> req,
     checked |-> FALSE,     \* is_cache_valid returned
     valid |-> FALSE,       \* what is_cache_valid returned
     stat_ok |-> FALSE,     \* stat() returned
     age_seconds |-> 0,     \* the local of is_cache_valid, once stat() returned
     pixbuf |-> None,       \* the local pixbuf of worker
     data |-> NoBytes,      \* the local data of download_and_cache_thumbnail
     fd |-> 0,              \* the inode the open file of write_bytes refers to
     hit |-> FALSE,         \* load_pixbuf_from_cache returned an image
     fetches |-> 0,         \* calls of urlopen made by this thread
     queued |-> 0]          \* calls of GLib.idle_add made by this thread

IsOver(t) == t.pc \in {"done", "dead"}

\* a thread started whatever the id, without the test of line 209
async_threads_always(ths, video_id, req) ==
    Append(ths, Thread("exists", video_id, req))

\* load_thumbnail_async(video_id, callback): the threads and the idle queue
\* after the call; callback is always self._on_thumbnail_loaded
async_threads(ths, video_id, req) ==
    IF video_id # EmptyStr
    THEN Append(ths, Thread("exists", video_id, req))
    ELSE ths

async_idle(q, video_id) ==
    IF video_id # EmptyStr THEN q ELSE Append(q, None)

----------------------------------------------------------------------------
(* Navigation: load_random and on_previous *)

LastN(s, n) == SubSeq(s, Len(s) - n + 1, Len(s))

\* a trim that keeps the oldest 50 entries, [:50], instead of the newest
push_previous_keep_oldest(history, current) ==
    IF current # EmptyStr
    THEN LET h == Append(history, current)
         IN IF Len(h) > HISTORY_LIMIT THEN SubSeq(h, 1, HISTORY_LIMIT) ELSE h
    ELSE history

\* a push without the test of line 650
push_previous_always(history, current) ==
    LET h == Append(history, current)
    IN IF Len(h) > HISTORY_LIMIT THEN LastN(h, HISTORY_LIMIT) ELSE h

\* a shuffle that forgets the video it leaves
push_previous_never(history, current) == history

\* load_random, lines 650-654: the history after the current id is pushed
push_previous(history, current) ==
    IF current # EmptyStr
    THEN LET h == Append(history, current)
         IN IF Len(h) > HISTORY_LIMIT THEN LastN(h, HISTORY_LIMIT) ELSE h
    ELSE history

\* the text fields both handlers fill from a row
fill_widgets(title, url, vid, history) ==
    [title_lbl |-> IF title # EmptyStr THEN title ELSE <<"(No title)">>,
     url_entry |-> url,
     id_entry |-> vid,
     ft_entry |-> IF url # EmptyStr THEN <<"freetube://">> \o url ELSE EmptyStr,
     prev_btn |-> Len(history) > 0]

\* the record of a request: its handler, the row it got, the ids it passed to
\* load_thumbnail_async, whether its except clause ran, and the navigation
\* state and catalog it found
Event(op, row, resolved, raised) ==
    [op |-> op, row |-> row, resolved |-> resolved, raised |-> raised,
     current |-> current_video_id, history |-> previous_video_ids,
     rows |-> catalog, entries |-> << >>]

NoRow == [title |-> EmptyStr, url |-> EmptyStr]

\* line 643 without the test of the connection
no_connection_ignored(has_conn) == FALSE

\* load_random, line 643: if not self.conn: return
no_connection(has_conn) == ~has_conn

\* load_random: query is "ok" or "error" (fetch_random raises sqlite3.Error)
\* has_conn, message and shown are self.conn, the status bar and the widgets
\* when it is called
load_random_with(has_conn, message, shown) ==
    /\ events' = events + 1
    /\ IF no_connection(has_conn)
       THEN /\ ev' = Event("load_random", NoRow, << >>, FALSE)
            /\ status' = message
            /\ widgets' = shown
            /\ UNCHANGED <<navVars, thumb, cacheVars>>
       ELSE \E query \in {"ok", "error"} :
            IF query = "error"
            THEN /\ status' = "Error loading video"
                 /\ ev' = Event("load_random", NoRow, << >>, TRUE)
                 /\ widgets' = shown
                 /\ UNCHANGED <<navVars, thumb, cacheVars>>
            ELSE \E row \in fetch_random(catalog) :
                 LET vid == extract_video_id(row.url)
                     history == push_previous(previous_video_ids, current_video_id)
                 IN /\ previous_video_ids' = history
                    /\ current_title' = row.title
                    /\ current_url' = row.url
                    /\ current_video_id' = vid
                    /\ widgets' = fill_widgets(row.title, row.url, vid, history)
                    /\ thumb' = Placeholder
                    /\ threads' = async_threads(threads, vid, events + 1)
                    /\ idle' = async_idle(idle, vid)
                    /\ ev' = Event("load_random", row, <<vid>>, FALSE)
                    /\ status' = message
                    /\ UNCHANGED files

load_random == load_random_with(conn, status, widgets)

\* line 717 without the test of the history
nothing_to_go_back_conn_only(history, has_conn) == ~has_conn

\* on_previous, line 717: nothing to go back to
nothing_to_go_back(history, has_conn) == history = << >> \/ ~has_conn

\* on_previous, line 722: list.pop() returns the last entry and removes it
popped(history) == history[Len(history)]
\* a pop that removes the oldest entry, pop(0), instead of the newest
after_pop_oldest(history) == Tail(history)
after_pop(history) == SubSeq(history, 1, Len(history) - 1)

\* on_previous: query is "ok" or "error" (the SELECT raises sqlite3.Error);
\* pop() of an empty list raises IndexError, which line 789 catches as well
on_previous ==
    /\ events' = events + 1
    /\ IF nothing_to_go_back(previous_video_ids, conn)
       THEN /\ ev' = Event("on_previous", NoRow, << >>, FALSE)
            /\ UNCHANGED <<navVars, widgets, status, thumb, cacheVars>>
       ELSE IF previous_video_ids = << >>
       THEN /\ status' = "Error loading previous video"
            /\ ev' = Event("on_previous", NoRow, << >>, TRUE)
            /\ UNCHANGED <<navVars, widgets, thumb, cacheVars>>
       ELSE LET previous_video_id == popped(previous_video_ids)
                history == after_pop(previous_video_ids)
            IN /\ previous_video_ids' = history
               /\ \E query \in {"ok", "error"} :
                  IF query = "error"
                  THEN /\ status' = "Error loading previous video"
                       /\ ev' = Event("on_previous", NoRow, << >>, TRUE)
                       /\ UNCHANGED <<current_title, current_url, current_video_id,
                                      widgets, thumb, cacheVars>>
                  ELSE IF select_by_id(catalog, previous_video_id) = {}
                  THEN /\ ev' = Event("on_previous", NoRow, << >>, FALSE)
                       /\ UNCHANGED <<current_title, current_url, current_video_id,
                                      widgets, status, thumb, cacheVars>>
                  ELSE \E result \in select_by_id(catalog, previous_video_id) :
                       /\ current_title' = result.title
                       /\ current_url' = result.url
                       /\ current_video_id' = previous_video_id
                       /\ widgets' = fill_widgets(result.title, result.url,
                                                  previous_video_id, history)
                       /\ thumb' = Placeholder
                       /\ threads' = async_threads(threads, previous_video_id, events + 1)
                       /\ idle' = async_idle(idle, previous_video_id)
                       /\ ev' = Event("on_previous",
                                      [title |-> result.title, url |-> result.url],
                                      <<previous_video_id>>, FALSE)
                       /\ UNCHANGED <<status, files>>

\* the image _on_thumbnail_loaded leaves in self.thumb
thumbnail_loaded(pixbuf) == IF pixbuf # None THEN pixbuf ELSE Placeholder

----------------------------------------------------------------------------
(* The steps of a worker thread.  Each is one call that reads or writes the *)
(* cache directory, the network or the idle queue.                          *)

PathOf(i) == cache_path_for_video_id(threads[i].video_id)
FileAt(path) == IF path \in DOMAIN files THEN files[path] ELSE NoFile

threadFrame == <<uiVars, thumb, now, ticks>>

\* load_pixbuf_from_cache, line 154, and is_cache_valid, line 145:
\* cache_file.exists()
is_cache_valid_exists(i) ==
    /\ threads[i].pc = "exists"
    /\ IF threads[i].video_id = EmptyStr
       THEN threads' = [threads EXCEPT ![i].pc = "urlopen"]
       ELSE IF FileAt(PathOf(i)).kind = "file"
       THEN threads' = [threads EXCEPT ![i].pc = "stat"]
       ELSE threads' = [threads EXCEPT ![i].checked = TRUE, ![i].valid = FALSE,
                                       ![i].pc = "urlopen"]
    /\ UNCHANGED <<idle, files, threadFrame>>

\* is_cache_valid, lines 147-149: cache_file.stat() raises FileNotFoundError
\* when the file is gone, and nothing in the thread catches it
is_cache_valid_stat(i) ==
    /\ threads[i].pc = "stat"
    /\ IF FileAt(PathOf(i)).kind # "file"
       THEN threads' = [threads EXCEPT ![i].pc = "dead"]
       ELSE LET age_seconds == now - FileAt(PathOf(i)).mtime
            IN threads' = [threads EXCEPT
                   ![i].age_seconds = age_seconds,
                   ![i].stat_ok = TRUE,
                   ![i].checked = TRUE,
                   ![i].valid = age_is_valid(age_seconds),
                   ![i].pc = IF age_is_valid(age_seconds) THEN "decode" ELSE "urlopen"]
    /\ UNCHANGED <<idle, files, threadFrame>>

\* load_pixbuf_from_cache, lines 158-161: new_from_file_at_scale
load_pixbuf_decode(i) ==
    /\ threads[i].pc = "decode"
    /\ LET f == FileAt(PathOf(i))
       IN IF f.kind = "file" /\ f.bytes.kind = "jpeg"
          THEN threads' = [threads EXCEPT ![i].pixbuf = at_scale(f.bytes),
                                          ![i].hit = TRUE,
                                          ![i].pc = "idle_add"]
          ELSE threads' = [threads EXCEPT ![i].pc = "unlink_corrupt"]
    /\ UNCHANGED <<idle, files, threadFrame>>

\* an except clause that returns None and leaves the file where it is
load_pixbuf_unlink_keeps_file(i) ==
    /\ threads[i].pc = "unlink_corrupt"
    /\ threads' = [threads EXCEPT ![i].pc = "urlopen"]
    /\ UNCHANGED <<idle, files, uiVars, thumb, now, ticks>>

\* load_pixbuf_from_cache, line 164: cache_file.unlink(missing_ok=True)
load_pixbuf_unlink(i) ==
    /\ threads[i].pc = "unlink_corrupt"
    /\ files' = [p \in DOMAIN files |-> IF p = PathOf(i) THEN NoFile ELSE files[p]]
    /\ threads' = [threads EXCEPT ![i].pc = "urlopen"]
    /\ UNCHANGED <<idle, threadFrame>>

\* worker, line 205, and download_and_cache_thumbnail, lines 170-176
download_urlopen(i) ==
    /\ threads[i].pc = "urlopen"
    /\ LET url == thumbnail_url(threads[i].video_id)
       IN IF url = EmptyStr \/ threads[i].video_id = EmptyStr
          THEN threads' = [threads EXCEPT ![i].pc = "idle_add"]
          ELSE \E resp \in Responses(url) \cup { [kind |-> "error"] } :
               threads' = [threads EXCEPT
                   ![i].fetches = @ + 1,
                   ![i].data = IF resp.kind = "error" THEN NoBytes ELSE resp,
                   ![i].pc = IF resp.kind = "error" THEN "unlink_failed" ELSE "open"]
    /\ UNCHANGED <<idle, files, threadFrame>>

\* write_bytes, line 179, first half: open(path, "wb") creates the file or
\* truncates the one that is there, or raises OSError
download_write_open(i) ==
    /\ threads[i].pc = "open"
    /\ \E opened \in BOOLEAN :
          LET f == FileAt(PathOf(i))
              ino == IF f.kind = "file" THEN f.ino ELSE threads[i].req
          IN IF opened
             THEN /\ files' = [files EXCEPT ![PathOf(i)] = File(NoBytes, now, ino)]
                  /\ threads' = [threads EXCEPT ![i].fd = ino, ![i].pc = "write"]
             ELSE /\ threads' = [threads EXCEPT ![i].pc = "unlink_failed"]
                  /\ UNCHANGED files
    /\ UNCHANGED <<idle, threadFrame>>

\* write_bytes, second half: the bytes go to the open file, which is the file
\* at the path only if nobody unlinked it meanwhile, or the write raises
\* OSError and the file keeps what open left in it; then lines 182-188
download_write_data(i) ==
    /\ threads[i].pc = "write"
    /\ \E written \in BOOLEAN :
          LET f == FileAt(PathOf(i))
              data == threads[i].data
          IN IF written
             THEN /\ files' = IF f.kind = "file" /\ f.ino = threads[i].fd
                               THEN [files EXCEPT ![PathOf(i)] = File(data, now, f.ino)]
                               ELSE files
                  /\ threads' = IF data.kind = "jpeg"
                                 THEN [threads EXCEPT ![i].pixbuf = decode_downloaded(data),
                                                      ![i].pc = "idle_add"]
                                 ELSE [threads EXCEPT ![i].pc = "unlink_failed"]
             ELSE /\ threads' = [threads EXCEPT ![i].pc = "unlink_failed"]
                  /\ UNCHANGED files
    /\ UNCHANGED <<idle, threadFrame>>

\* an except clause that returns None and leaves the file where it is
download_unlink_keeps_file(i) ==
    /\ threads[i].pc = "unlink_failed"
    /\ threads' = [threads EXCEPT ![i].pixbuf = None, ![i].pc = "idle_add"]
    /\ UNCHANGED <<idle, files, uiVars, thumb, now, ticks>>

\* download_and_cache_thumbnail, lines 189-192
download_unlink(i) ==
    /\ threads[i].pc = "unlink_failed"
    /\ files' = [p \in DOMAIN files |-> IF p = PathOf(i) THEN NoFile ELSE files[p]]
    /\ threads' = [threads EXCEPT ![i].pixbuf = None, ![i].pc = "idle_add"]
    /\ UNCHANGED <<idle, threadFrame>>

\* a worker that calls the callback itself instead of queueing it
worker_calls_callback(i) ==
    /\ threads[i].pc = "idle_add"
    /\ thumb' = thumbnail_loaded(threads[i].pixbuf)
    /\ threads' = [threads EXCEPT ![i].pc = "done", ![i].queued = @ + 1,
                                  ![i].data = NoBytes, ![i].fd = 0]
    /\ UNCHANGED <<idle, files, uiVars, now, ticks>>

\* worker, lines 201 and 207: GLib.idle_add(callback, pixbuf), and the thread ends
worker_idle_add(i) ==
    /\ threads[i].pc = "idle_add"
    /\ idle' = Append(idle, threads[i].pixbuf)
    /\ threads' = [threads EXCEPT ![i].pc = "done", ![i].queued = @ + 1,
                                  ![i].data = NoBytes, ![i].fd = 0]
    /\ UNCHANGED <<files, threadFrame>>

----------------------------------------------------------------------------
(* The GTK main loop *)

\* the main loop runs the oldest idle callback
on_thumbnail_loaded ==
    /\ idle # << >>
    /\ thumb' = thumbnail_loaded(Head(idle))
    /\ idle' = Tail(idle)
    /\ UNCHANGED <<uiVars, threads, files, now, ticks>>

\* GGWindow.__init__, line 258: _check_database_state
\* the file at DB_PATH is "missing", or the COUNT query on it is "ok" or
\* raises sqlite3.Error ("error"); a missing file holds no rows
check_database_state ==
    /\ view = "init"
    /\ \E found \in {"missing", "ok", "error"} :
          /\ found = "missing" => catalog = {}
          /\ conn' = (found = "ok" /\ catalog # {})
          /\ status' =
                CASE found = "missing" ->
                        "Database not found - welcome screen will be shown"
                  [] found = "error" -> "Database error"
                  [] found = "ok" /\ catalog = {} ->
                        "Database is empty - welcome screen will be shown"
                  [] OTHER -> "Ready"
    /\ view' = "checked"
    /\ UNCHANGED <<catalog, navVars, widgets, thumb, cacheVars, now, events, limit,
                   ticks, ev, dbVars>>

\* enable_actions, line 473: it makes the Previous button sensitive as well
enable_actions(shown) == [shown EXCEPT !.prev_btn = TRUE]

\* GGWindow.__init__, line 259: _build_ui, which ends with the initial load_random
build_ui ==
    /\ view = "checked"
    /\ IF ~conn
       THEN /\ view' = "welcome"
            /\ buttons' = [buttons EXCEPT !.build_db_button = "sensitive"]
            /\ UNCHANGED <<navVars, widgets, status, thumb, cacheVars, events, ev>>
       ELSE /\ view' = "main"
            /\ buttons' = [buttons EXCEPT !.update_btn = "sensitive"]
            /\ load_random_with(TRUE, "Connected", enable_actions(widgets))
    /\ UNCHANGED <<conn, catalog, now, limit, ticks, is_updating_db, db_threads,
                   db_idle>>

on_shuffle ==
    /\ view = "main"
    /\ events < limit
    /\ load_random
    /\ UNCHANGED <<conn, view, catalog, now, limit, ticks, dbVars>>

\* a click on the Previous button, which is possible while it is sensitive
prev_btn_clicked ==
    /\ view = "main"
    /\ widgets.prev_btn
    /\ events < limit
    /\ on_previous
    /\ UNCHANGED <<conn, view, catalog, now, limit, ticks, dbVars>>

on_key_press ==
    /\ view = "main"
    /\ events < limit
    /\ \E key \in {"space", "p"} :
          IF key = "space" THEN load_random ELSE on_previous
    /\ UNCHANGED <<conn, view, catalog, now, limit, ticks, dbVars>>

\* a call of load_random while the welcome screen is shown, where no button
\* and no key is bound to it.  Once _on_build_complete has set self.conn the
\* call gets past line 643, sets the navigation state (lines 649-659) and
\* raises AttributeError at line 661, since title_lbl was never built; the
\* except clause at line 712 sets the status
load_random_called ==
    /\ view = "welcome"
    /\ events < limit
    /\ IF no_connection(conn)
       THEN load_random
       ELSE /\ events' = events + 1
            /\ status' = "Error loading video"
            /\ \E query \in {"ok", "error"} :
                  IF query = "error"
                  THEN /\ ev' = Event("load_random", NoRow, << >>, TRUE)
                       /\ UNCHANGED navVars
                  ELSE \E row \in fetch_random(catalog) :
                       /\ previous_video_ids' =
                             push_previous(previous_video_ids, current_video_id)
                       /\ current_title' = row.title
                       /\ current_url' = row.url
                       /\ current_video_id' = extract_video_id(row.url)
                       /\ ev' = Event("load_random", row, << >>, TRUE)
            /\ UNCHANGED <<widgets, thumb, cacheVars>>
    /\ UNCHANGED <<conn, view, catalog, now, limit, ticks, dbVars>>

----------------------------------------------------------------------------
(* Building and updating the database from the window *)

\* a thread started by _on_build_database or _on_update_database: target is
\* its function, pc is "running" (in scrape_videos), "scraped" (it returned),
\* "failed" (it raised an Exception), "done" (the callback is queued) or
\* "exited" (it raised SystemExit, which except Exception does not catch)
DbThread(target, pc) == [target |-> target, pc |-> pc]

DbRunning(t) == t.pc \in {"running", "scraped", "failed"}

\* lines 503 and 597 without the test of the flag
already_updating_never(flag) == FALSE

\* lines 503 and 597: if self.is_updating_db: return
already_updating(flag) == flag

\* _on_build_database, the handler of the clicked signal of build_db_button
on_build_database ==
    /\ view = "welcome"
    /\ events < limit
    /\ events' = events + 1
    /\ ev' = Event("_on_build_database", NoRow, << >>, FALSE)
    /\ IF already_updating(is_updating_db)
       THEN UNCHANGED <<is_updating_db, db_threads, buttons, status>>
       ELSE /\ is_updating_db' = TRUE
            /\ buttons' = [buttons EXCEPT !.build_db_button = "insensitive"]
            /\ status' = "Building database - this may take a few minutes..."
            /\ db_threads' = Append(db_threads, DbThread("build_worker", "running"))
    /\ UNCHANGED <<conn, view, catalog, navVars, widgets, thumb, cacheVars, now,
                   limit, ticks, db_idle>>

\* _on_update_database, the handler of the clicked signal of update_btn
on_update_database ==
    /\ view = "main"
    /\ events < limit
    /\ events' = events + 1
    /\ ev' = Event("_on_update_database", NoRow, << >>, FALSE)
    /\ IF already_updating(is_updating_db)
       THEN UNCHANGED <<is_updating_db, db_threads, buttons, status>>
       ELSE /\ is_updating_db' = TRUE
            /\ buttons' = [buttons EXCEPT !.update_btn = "insensitive"]
            /\ status' = "Updating database..."
            /\ db_threads' = Append(db_threads, DbThread("update_worker", "running"))
    /\ UNCHANGED <<conn, view, catalog, navVars, widgets, thumb, cacheVars, now,
                   limit, ticks, db_idle>>

\* what the import of yt_dlp at line 28 finds
YtDlp == {"installed", "absent"}

\* build_worker and update_worker, lines 519 and 607: the call of
\* scrape_videos.  Without yt_dlp it calls sys.exit(1); otherwise it raises
\* (the network, or an INSERT of seven values into a table of three columns)
\* or stores the entries and returns
db_worker_scrape(i) ==
    /\ db_threads[i].pc = "running"
    /\ \E yt_dlp \in YtDlp, network \in {"ok", "error"}, entries \in EntryLists :
          IF yt_dlp = "absent"
          THEN /\ db_threads' = [db_threads EXCEPT ![i].pc = "exited"]
               /\ UNCHANGED catalog
          ELSE IF \/ network = "error"
                  \/ entries # << >> /\ \E r \in catalog : r.columns # 7
          THEN /\ db_threads' = [db_threads EXCEPT ![i].pc = "failed"]
               /\ UNCHANGED catalog
          ELSE /\ db_threads' = [db_threads EXCEPT ![i].pc = "scraped"]
               /\ catalog' = scrape_videos_rows(catalog, entries)
    /\ UNCHANGED <<conn, view, navVars, widgets, status, thumb, cacheVars, now,
                   events, limit, ticks, ev, is_updating_db, db_idle, buttons>>

\* the callback a worker queues: lines 521 and 524, 608 and 611
db_callback(target, pc) ==
    IF target = "build_worker"
    THEN IF pc = "scraped" THEN "_on_build_complete" ELSE "_on_build_error"
    ELSE IF pc = "scraped" THEN "_on_update_complete" ELSE "_on_update_error"

\* build_worker and update_worker: GLib.idle_add of the callback
db_worker_idle_add(i) ==
    /\ db_threads[i].pc \in {"scraped", "failed"}
    /\ db_idle' = Append(db_idle, db_callback(db_threads[i].target, db_threads[i].pc))
    /\ db_threads' = [db_threads EXCEPT ![i].pc = "done"]
    /\ UNCHANGED <<conn, view, catalog, navVars, widgets, status, thumb, cacheVars,
                   now, events, limit, ticks, ev, is_updating_db, buttons>>

\* _on_build_error
build_error(message) ==
    /\ is_updating_db' = FALSE
    /\ buttons' = [buttons EXCEPT !.build_db_button = "sensitive"]
    /\ status' = message

\* the main loop runs _on_build_complete: sqlite3.connect or the COUNT query
\* may raise sqlite3.Error ("connect_error", "query_error")
on_build_complete ==
    /\ db_idle # << >> /\ Head(db_idle) = "_on_build_complete"
    /\ db_idle' = Tail(db_idle)
    /\ \E outcome \in {"ok", "connect_error", "query_error"} :
          /\ conn' = IF outcome = "connect_error" THEN conn ELSE TRUE
          /\ IF outcome = "ok"
             THEN /\ is_updating_db' = FALSE
                  /\ status' = "Database ready - please restart the app"
                  /\ buttons' = [buttons EXCEPT !.build_db_button = "hidden"]
             ELSE build_error("Build failed: Database connection error")
    /\ UNCHANGED <<view, catalog, navVars, widgets, thumb, cacheVars, now, events,
                   limit, ticks, ev, db_threads>>

\* the main loop runs _on_build_error("Build error: ...")
on_build_error ==
    /\ db_idle # << >> /\ Head(db_idle) = "_on_build_error"
    /\ db_idle' = Tail(db_idle)
    /\ build_error("Build failed: Build error")
    /\ UNCHANGED <<conn, view, catalog, navVars, widgets, thumb, cacheVars, now,
                   events, limit, ticks, ev, db_threads>>

\* the main loop runs _on_update_complete: the COUNT query may raise
\* sqlite3.Error, which nothing catches, after the flag and the button are set
on_update_complete ==
    /\ db_idle # << >> /\ Head(db_idle) = "_on_update_complete"
    /\ db_idle' = Tail(db_idle)
    /\ is_updating_db' = FALSE
    /\ buttons' = [buttons EXCEPT !.update_btn = "sensitive"]
    /\ IF conn
       THEN \E query \in {"ok", "error"} :
               status' = IF query = "ok" THEN "Database updated" ELSE status
       ELSE status' = "Database update complete"
    /\ UNCHANGED <<conn, view, catalog, navVars, widgets, thumb, cacheVars, now,
                   events, limit, ticks, ev, db_threads>>

\* the main loop runs _on_update_error("Update error: ...")
on_update_error ==
    /\ db_idle # << >> /\ Head(db_idle) = "_on_update_error"
    /\ db_idle' = Tail(db_idle)
    /\ is_updating_db' = FALSE
    /\ buttons' = [buttons EXCEPT !.update_btn = "sensitive"]
    /\ status' = "Update failed: Update error"
    /\ UNCHANGED <<conn, view, catalog, navVars, widgets, thumb, cacheVars, now,
                   events, limit, ticks, ev, db_threads>>

----------------------------------------------------------------------------
(* The environment *)

\* another process deletes a row of the table in the file at DB_PATH
catalog_row_deleted ==
    /\ \E r \in catalog : catalog' = catalog \ {r}
    /\ UNCHANGED <<conn, view, navVars, widgets, status, thumb, cacheVars,
                   now, events, limit, ticks, ev, dbVars>>

\* a run of scrape_videos on the database file, from the command line or from
\* the update thread: the INSERT of seven values raises on a table that
\* scrape.py created with three columns, before anything is committed
scrape_videos ==
    /\ events < limit
    /\ \E entries \in EntryLists :
          LET raises == entries # << >> /\ \E r \in catalog : r.columns # 7
          IN /\ catalog' = IF raises THEN catalog
                            ELSE scrape_videos_rows(catalog, entries)
             /\ ev' = [Event("scrape_videos", NoRow, << >>, raises)
                          EXCEPT !.entries = entries]
    /\ events' = events + 1
    /\ UNCHANGED <<conn, view, navVars, widgets, status, thumb, cacheVars,
                   now, limit, ticks, dbVars>>

\* a run of scrape.py on the database file: the INSERT of three values raises
\* on a table that scrape_videos created with seven columns
scrape_main ==
    /\ events < limit
    /\ \E entries \in EntryLists :
          LET raises == entries # << >> /\ \E r \in catalog : r.columns # 3
          IN /\ catalog' = IF raises THEN catalog
                            ELSE scrape_main_rows(catalog, entries)
             /\ ev' = [Event("scrape_main", NoRow, << >>, raises)
                          EXCEPT !.entries = entries]
    /\ events' = events + 1
    /\ UNCHANGED <<conn, view, navVars, widgets, status, thumb, cacheVars,
                   now, limit, ticks, dbVars>>

\* a second passes, between the runs of the threads: a thread reads the clock
\* once, in stat(), and its calls take much less than a second
tick ==
    /\ ticks < MaxTicks
    /\ \A i \in DOMAIN threads : IsOver(threads[i])
    /\ now' = now + 1
    /\ ticks' = ticks + 1
    /\ UNCHANGED <<uiVars, thumb, cacheVars>>

\* load_thumbnail_async(video_id, self._on_thumbnail_loaded) called on its own,
\* for the id whose cache file the run starts with or for the empty id
resolve ==
    /\ events < limit
    /\ \E video_id \in {<<"a">>, EmptyStr} :
          /\ threads' = async_threads(threads, video_id, events + 1)
          /\ idle' = async_idle(idle, video_id)
          /\ ev' = Event("resolve", NoRow, <<video_id>>, FALSE)
    /\ events' = events + 1
    /\ UNCHANGED <<conn, view, catalog, navVars, widgets, status, thumb, files,
                   now, limit, ticks, dbVars>>

----------------------------------------------------------------------------
(* Specifications *)

\* the clock starts late enough for files older than the maximum age
StartTime == MaxAgeSeconds + 2

NoEvent == [op |-> "none", row |-> NoRow, resolved |-> << >>, raised |-> FALSE,
            current |-> EmptyStr, history |-> << >>, rows |-> {},
            entries |-> << >>]

\* no button exists before _build_ui: a button is "none", "sensitive",
\* "insensitive" or "hidden"
NoButtons == [build_db_button |-> "none", update_btn |-> "none"]

\* GGWindow.__init__, lines 231-257
InitWindow ==
    /\ conn = FALSE
    /\ view = "init"
    /\ current_title = EmptyStr
    /\ current_url = EmptyStr
    /\ current_video_id = EmptyStr
    /\ previous_video_ids = << >>
    /\ widgets = [title_lbl |-> EmptyStr, url_entry |-> EmptyStr,
                  id_entry |-> EmptyStr, ft_entry |-> EmptyStr, prev_btn |-> FALSE]
    /\ status = ""
    /\ thumb = Unset
    /\ threads = << >>
    /\ idle = << >>
    /\ now = StartTime
    /\ events = 0
    /\ ticks = 0
    /\ ev = NoEvent
    /\ is_updating_db = FALSE
    /\ db_threads = << >>
    /\ db_idle = << >>
    /\ buttons = NoButtons

\* the window of a first run: any catalog, an empty cache directory
Init ==
    /\ InitWindow
    /\ limit = MaxEvents
    /\ catalog \in SUBSET Rows
    /\ files = [p \in CachePaths |-> NoFile]

Workers ==
    \/ \E i \in DOMAIN threads : is_cache_valid_exists(i)
    \/ \E i \in DOMAIN threads : is_cache_valid_stat(i)
    \/ \E i \in DOMAIN threads : load_pixbuf_decode(i)
    \/ \E i \in DOMAIN threads : load_pixbuf_unlink(i)
    \/ \E i \in DOMAIN threads : download_urlopen(i)
    \/ \E i \in DOMAIN threads : download_write_open(i)
    \/ \E i \in DOMAIN threads : download_write_data(i)
    \/ \E i \in DOMAIN threads : download_unlink(i)
    \/ \E i \in DOMAIN threads : worker_idle_add(i)

\* the whole program; the Previous button stays insensitive until a second
\* shuffle, and its handler is reached through the p key
Next ==
    \/ check_database_state
    \/ build_ui
    \/ on_shuffle
    \/ on_key_press
    \/ on_thumbnail_loaded
    \/ catalog_row_deleted
    \/ Workers

Spec == Init /\ [][Next]_vars

\* the window of a first run on a catalog of one row: every thread the
\* handlers start is for the same id
InitOneRow ==
    /\ InitWindow
    /\ limit = MaxEvents
    /\ catalog = { ScrapedRow(<<"a">>) }
    /\ files = [p \in CachePaths |-> NoFile]

SpecOneRow == InitOneRow /\ [][Next]_vars

\* the ids a, b, a, b, ... : a history of n entries
Alternating(n) == [i \in 1..n |-> IF i % 2 = 1 THEN <<"a">> ELSE <<"b">>]

\* a session in progress: the window after n + 1 shuffles that picked the rows
\* of Alternating(n) and then the current one, with every thread over and
\* every callback run
InitSession ==
    /\ conn = TRUE
    /\ view = "main"
    /\ catalog \in SUBSET Rows
    /\ \E n \in {HISTORY_LIMIT - 1, HISTORY_LIMIT} : previous_video_ids = Alternating(n)
    /\ \E row \in Rows :
          /\ current_title = row.title
          /\ current_url = row.url
          /\ current_video_id = extract_video_id(row.url)
          /\ widgets = fill_widgets(row.title, row.url, extract_video_id(row.url),
                                    previous_video_ids)
    /\ status = "Connected"
    /\ thumb = Placeholder
    /\ threads = << >>
    /\ idle = << >>
    /\ files = [p \in CachePaths |-> NoFile]
    /\ now = StartTime
    /\ events = 0
    /\ limit = MaxRequests
    /\ ticks = 0
    /\ ev = NoEvent
    /\ is_updating_db = FALSE
    /\ db_threads = << >>
    /\ db_idle = << >>
    /\ buttons = [NoButtons EXCEPT !.update_btn = "sensitive"]

\* the window of a first run, for the requests alone
InitNav ==
    /\ InitWindow
    /\ limit = MaxRequests
    /\ catalog \in SUBSET Rows
    /\ files = [p \in CachePaths |-> NoFile]

\* the requests and the catalog alone: the threads the handlers start are
\* not scheduled, and their steps leave what the handlers read unchanged
NextNav ==
    \/ check_database_state
    \/ build_ui
    \/ on_shuffle
    \/ prev_btn_clicked
    \/ on_key_press
    \/ catalog_row_deleted

SpecNav == InitNav /\ [][NextNav]_vars

\* the same from a first run or from a session in progress
SpecSession == (InitNav \/ InitSession) /\ [][NextNav]_vars

\* the record of the end-to-end scenario: a videos row whose url is not one
\* that scrape_videos builds
ExampleRow ==
    [id |-> <<"abc123">>, title |-> <<"Ep 1">>,
     url |-> <<"https://x/", WATCH, "abc123">>, columns |-> 7]

\* the window of a first run on a catalog that holds this record only
InitExample ==
    /\ InitWindow
    /\ limit = MaxRequests
    /\ catalog = { ExampleRow }
    /\ files = [p \in CachePaths |-> NoFile]

\* the requests, the catalog and the main loop, which runs the callback that
\* load_thumbnail_async queues itself when the id is empty
NextExample ==
    \/ NextNav
    \/ on_thumbnail_loaded

SpecExample == InitExample /\ [][NextExample]_vars

\* the database file alone, from before its first scrape, under runs of the
\* two scrapers
InitScrape ==
    /\ InitWindow
    /\ limit = MaxRequests
    /\ catalog = {}
    /\ files = [p \in CachePaths |-> NoFile]

NextScrape ==
    \/ scrape_videos
    \/ scrape_main

SpecScrape == InitScrape /\ [][NextScrape]_vars

\* the forms of the url of a video that the test of the id extraction lists
UrlForms(vid) ==
    { <<"https://www.youtube.com/", WATCH>> \o vid,
      <<"https://youtu.be/">> \o vid,
      <<"https://www.youtube.com/embed/">> \o vid,
      <<"https://www.youtube.com/v/">> \o vid }

\* a videos row for each id and each form of its url
FormRows ==
    UNION { { [id |-> v, title |-> <<"Episode ">> \o v, url |-> u, columns |-> 7] :
                u \in UrlForms(v) } : v \in VideoIds }

\* the window of a first run on a catalog that holds one such row
InitUrls ==
    /\ InitWindow
    /\ limit = MaxRequests
    /\ catalog \in { {r} : r \in FormRows }
    /\ files = [p \in CachePaths |-> NoFile]

SpecUrls == InitUrls /\ [][NextExample]_vars

\* the window of a first run, for the building and updating of the database
InitDb ==
    /\ InitWindow
    /\ limit = MaxRequests
    /\ catalog \in SUBSET Rows
    /\ files = [p \in CachePaths |-> NoFile]

DbWorkers ==
    \/ \E i \in DOMAIN db_threads : db_worker_scrape(i)
    \/ \E i \in DOMAIN db_threads : db_worker_idle_add(i)

DbCallbacks ==
    \/ on_build_complete
    \/ on_build_error
    \/ on_update_complete
    \/ on_update_error

\* the start of the window, calls of load_random on the welcome screen, the
\* build and update requests, their threads and their callbacks; the
\* thumbnail threads are not scheduled
NextDb ==
    \/ check_database_state
    \/ build_ui
    \/ load_random_called
    \/ on_build_database
    \/ on_update_database
    \/ DbWorkers
    \/ DbCallbacks

SpecDb == InitDb /\ [][NextDb]_vars

\* the same with the scheduling of the program: a thread that can take a step
\* takes one, and the main loop runs the callbacks that are queued
SpecDbFair == SpecDb /\ WF_vars(DbWorkers) /\ WF_vars(DbCallbacks)

\* what the cache directory may hold for an id when a run starts: nothing, or
\* its image or undecodable bytes, written exactly 30 days ago or a second less
OldFiles(video_id) ==
    { NoFile } \cup
    { File(b, StartTime - MaxAgeSeconds + d, 0) :
        b \in { Jpeg(video_id, s[1], s[2]) : s \in SourceSizes } \cup { Garbage },
        d \in {0, 1} }

\* the thumbnail cache alone, called directly, with such a file for id a
InitResolve ==
    /\ InitWindow
    /\ limit = MaxResolves
    /\ catalog = Rows
    /\ \E f \in OldFiles(<<"a">>) :
          files = [p \in CachePaths |->
                      IF p = cache_path_for_video_id(<<"a">>) THEN f ELSE NoFile]

NextResolve ==
    \/ resolve
    \/ Workers
    \/ on_thumbnail_loaded
    \/ tick

SpecResolve == InitResolve /\ [][NextResolve]_vars

\* the same with the scheduling of the program: a thread that can take a step
\* takes one, and the main loop runs the callbacks that are queued
SpecResolveFair ==
    SpecResolve /\ WF_vars(Workers) /\ WF_vars(on_thumbnail_loaded)

----------------------------------------------------------------------------
(* Claims *)

Last(s) == s[Len(s)]

\* the last request was a load_random whose fetch_random returned
Shuffled == ev.op = "load_random" /\ ev.row # NoRow

\* the last request was an on_previous that found a history to pop
WentBack == ev.op = "on_previous" /\ ev.history # << >> /\ conn

\* C1: the history never holds more than 50 ids, and a shuffle that pushes
\* onto a history of 50 drops the oldest id and keeps the 50 most recent ones
\* in their order
C1_HistoryAtMost50 ==
    /\ Len(previous_video_ids) <= 50
    /\ (Shuffled /\ Len(ev.history) = 50 /\ ev.current # EmptyStr)
          => previous_video_ids = SubSeq(ev.history, 2, 50) \o <<ev.current>>

C1_Witness ==
    /\ Shuffled
    /\ ev.rows # {}
    /\ Len(ev.history) = 50
    /\ ev.current # EmptyStr
    /\ Len(previous_video_ids) = 50
    /\ previous_video_ids[1] # ev.history[1]
    /\ previous_video_ids[50] = ev.current

\* C2: the displayed image is only ever the placeholder (or nothing yet) or
\* the thumbnail of the current id
C2_ThumbnailOfCurrent ==
    thumb.kind = "pixbuf" => thumb.img = current_video_id

\* C3: a shuffle on a non-empty catalog pushes the former current id onto the
\* end of the history exactly when it is non-empty, changes the history in no
\* other way than the trim to 50, and makes the picked row's id current
C3_ShufflePushesCurrent ==
    (Shuffled /\ ev.rows # {}) =>
        LET pushed == IF ev.current # EmptyStr
                      THEN ev.history \o <<ev.current>>
                      ELSE ev.history
        IN /\ previous_video_ids =
                 IF Len(pushed) > 50
                 THEN SubSeq(pushed, Len(pushed) - 49, Len(pushed))
                 ELSE pushed
           /\ \E r \in ev.rows :
                 /\ r.title = ev.row.title
                 /\ r.url = ev.row.url
                 /\ current_video_id = r.id

C3_Witness ==
    /\ Shuffled
    /\ ev.rows # {}
    /\ ev.current # EmptyStr
    /\ previous_video_ids = Append(ev.history, ev.current)
    /\ current_video_id # ev.current

\* C4: a shuffle made while the catalog is empty leaves current and the
\* history as they were
C4_EmptyCatalogKeepsState ==
    (ev.op = "load_random" /\ ev.rows = {}) =>
        /\ current_video_id = ev.current
        /\ previous_video_ids = ev.history

\* C5: a previous request made while the history is empty changes neither
\* current, nor the history, nor the displayed fields, nor the thumbnail
\* requests in flight
C5_PreviousOnEmptyIsNoop ==
    [][(events' = events + 1 /\ ev'.op = "on_previous" /\ previous_video_ids = << >>)
          => UNCHANGED <<navVars, widgets, status, thumb, threads, idle, files>>]_vars

C5_Witness ==
    /\ ev.op = "on_previous"
    /\ ev.history = << >>
    /\ ev.current # EmptyStr
    /\ current_video_id = ev.current

\* C6: a previous request made while the history is non-empty removes exactly
\* its last entry; when the catalog has a row for that id and the query
\* returns, that id is current and that row is the one shown
C6_PreviousPopsLast ==
    WentBack =>
        /\ Len(previous_video_ids) = Len(ev.history) - 1
        /\ previous_video_ids = SubSeq(ev.history, 1, Len(ev.history) - 1)
        /\ \A r \in ev.rows :
              (r.id = Last(ev.history) /\ ~ev.raised) =>
                  /\ current_video_id = Last(ev.history)
                  /\ current_title = r.title
                  /\ current_url = r.url
                  /\ widgets.title_lbl = r.title
                  /\ widgets.url_entry = r.url
                  /\ widgets.id_entry = r.id

C6_Witness ==
    /\ WentBack
    /\ ~ev.raised
    /\ Len(ev.history) > 1
    /\ \E r \in ev.rows : r.id = Last(ev.history)
    /\ current_video_id = Last(ev.history)
    /\ current_video_id # ev.current

\* C7: a previous request that pops an id the catalog no longer has reports
\* an error in the status bar, and does not put the id back
C7_MissingRowIsReported ==
    (WentBack /\ ~ev.raised /\ \A r \in ev.rows : r.id # Last(ev.history)) =>
        /\ status = "Error loading previous video"
        /\ previous_video_ids = SubSeq(ev.history, 1, Len(ev.history) - 1)

\* C8: a cache entry is taken as valid exactly when it exists and is younger
\* than 30 days; a thread served from the cache fetches nothing, and a thread
\* that finds an entry of 30 days or more is not served from it and fetches
C8_ValidIffYoungerThan30Days ==
    \A i \in DOMAIN threads :
        LET t == threads[i]
        IN /\ t.checked =>
                 (t.valid <=> (t.stat_ok /\ t.age_seconds < 30 * 24 * 3600))
           /\ t.hit =>
                 /\ t.valid
                 /\ t.fetches = 0
                 /\ t.pixbuf.kind = "pixbuf"
                 /\ t.pc \in {"idle_add", "done"}
           /\ (t.stat_ok /\ t.age_seconds >= 30 * 24 * 3600) =>
                 /\ ~t.hit
                 /\ \/ t.pc = "urlopen" /\ t.fetches = 0
                    \/ /\ t.pc \in {"open", "write", "unlink_failed", "idle_add", "done"}
                       /\ t.fetches = 1

C8_Witness ==
    \E i, j \in DOMAIN threads :
        /\ threads[i].pc = "done"
        /\ threads[i].hit
        /\ threads[i].age_seconds = 30 * 24 * 3600 - 1
        /\ threads[i].fetches = 0
        /\ threads[j].pc = "done"
        /\ threads[j].stat_ok
        /\ threads[j].age_seconds = 30 * 24 * 3600
        /\ threads[j].fetches = 1

\* C9: a resolve of a non-empty id that is not served from the cache makes
\* exactly one network fetch, never none and never more than one
C9_ExactlyOneFetchPerMiss ==
    \A i \in DOMAIN threads :
        LET t == threads[i]
        IN t.video_id # EmptyStr =>
              /\ t.fetches <= 1
              /\ (IsOver(t) /\ ~t.hit) => t.fetches = 1

\* C10: a resolve of the empty id queues a None result and starts no thread,
\* touches no cache file and fetches nothing
C10_EmptyIdIsUnavailable ==
    [][(events' = events + 1 /\ ev'.resolved = <<EmptyStr>>)
          => /\ idle' = Append(idle, None)
             /\ UNCHANGED <<threads, files>>]_vars

C10_Witness ==
    /\ ev.op = "resolve"
    /\ ev.resolved = <<EmptyStr>>
    /\ threads = << >>
    /\ idle = << >>
    /\ thumb = Placeholder

\* C11: a thread started for a non-empty id queues at most one result, and
\* every such thread eventually has queued exactly one, whatever the other
\* threads do to the cache file meanwhile
C11_EveryResolveDelivers ==
    /\ [](\A i \in DOMAIN threads : threads[i].queued <= 1)
    /\ \A r \in 1..MaxResolves :
          (\E i \in DOMAIN threads : threads[i].req = r)
             ~> (\E i \in DOMAIN threads :
                    threads[i].req = r /\ threads[i].queued = 1)

\* C12: a thread whose decode of an unexpired cache file failed removes the file
\* at the path and goes on to the fetch; it ends with one fetch made, and what
\* it queues is None or the image decoded from the fetched bytes
C12_CorruptEntryDeletedThenFetched ==
    /\ [][\A i \in DOMAIN threads :
             (threads[i].pc = "unlink_corrupt" /\ threads'[i].pc # "unlink_corrupt")
                => /\ files'[PathOf(i)] = NoFile
                   /\ threads'[i].pc = "urlopen"
                   /\ threads'[i].fetches = 0]_vars
    /\ [](\A i \in DOMAIN threads :
             LET t == threads[i]
             IN (t.valid /\ ~t.hit /\ t.pc \in {"idle_add", "done"}) =>
                   /\ t.fetches = 1
                   /\ \/ t.pixbuf = None
                      \/ /\ t.pixbuf.kind = "pixbuf"
                         /\ t.pixbuf.img = t.video_id
                         /\ t.pc = "idle_add" =>
                               /\ t.data.kind = "jpeg"
                               /\ t.pixbuf = decode_downloaded(t.data))

C12_Witness ==
    \E i \in DOMAIN threads :
        /\ threads[i].pc = "done"
        /\ threads[i].valid
        /\ threads[i].age_seconds < MaxAgeSeconds
        /\ ~threads[i].hit
        /\ threads[i].fetches = 1
        /\ threads[i].pixbuf.kind = "pixbuf"
        /\ FileAt(PathOf(i)).kind = "file"
        /\ FileAt(PathOf(i)).bytes.kind = "jpeg"
        /\ Len(threads) = 1

\* C13: whenever the fetch path of a thread returns None (the fetch failed,
\* the file could not be opened or written, or the bytes did not decode),
\* there is no file at the cache path of its id when it returns
C13_FailedFetchLeavesNoFile ==
    [][\A i \in DOMAIN threads :
          (/\ threads[i].pc \in {"urlopen", "open", "write", "unlink_failed"}
           /\ threads'[i].pc = "idle_add"
           /\ threads'[i].pixbuf = None)
             => files'[PathOf(i)] = NoFile]_vars

C13_Witness ==
    \E i \in DOMAIN threads :
        /\ threads[i].pc = "idle_add"
        /\ threads[i].fetches = 1
        /\ threads[i].data.kind = "garbage"
        /\ threads[i].fd = threads[i].req
        /\ threads[i].pixbuf = None
        /\ FileAt(PathOf(i)) = NoFile

\* C14: after a resolve that found the cache entry expired, run with no other
\* resolve at the same time, the file is still at the path, holding either what
\* it held or the bytes of a fetch that succeeded
C14_ExpiredEntryIsKept ==
    (Len(threads) = 1 /\ threads[1].stat_ok /\ ~threads[1].valid
                      /\ threads[1].pc \in {"idle_add", "done"})
        => /\ FileAt(PathOf(1)).kind = "file"
           /\ \/ FileAt(PathOf(1)).mtime <= now - MaxAgeSeconds
              \/ /\ threads[1].pixbuf.kind = "pixbuf"
                 /\ FileAt(PathOf(1)).bytes.kind = "jpeg"

\* C15: no thread decodes the cache file while it holds only what an open for
\* writing left in it, and once two or more threads for an id are all over,
\* the file of that id is absent or holds the complete bytes of an image
C15_NoHalfWrittenFileIsRead ==
    /\ [][\A i \in DOMAIN threads :
             (/\ threads[i].pc = "decode"
              /\ threads'[i].pc # "decode"
              /\ FileAt(PathOf(i)).kind = "file")
                => FileAt(PathOf(i)).bytes # NoBytes]_vars
    /\ []((Len(threads) >= 2 /\ \A i \in DOMAIN threads : IsOver(threads[i]))
             => \A i \in DOMAIN threads :
                   \/ FileAt(PathOf(i)) = NoFile
                   \/ FileAt(PathOf(i)).bytes.kind = "jpeg")

\* C16: a step of a worker thread changes neither the displayed thumbnail nor
\* current, the history or the displayed fields; a thread hands its result over
\* by appending it to the idle queue; and the displayed thumbnail changes only
\* in a callback run by the main loop or in a request handler
C16_OnlyMainLoopTouchesUI ==
    [][/\ Workers => UNCHANGED <<thumb, navVars, widgets, status>>
       /\ \A i \in DOMAIN threads :
             (threads[i].pc = "idle_add" /\ threads'[i].pc = "done")
                => idle' = Append(idle, threads[i].pixbuf)
       /\ thumb' # thumb => (on_thumbnail_loaded \/ events' = events + 1)]_vars

C16_Witness ==
    /\ thumb.kind = "pixbuf"
    /\ idle = << >>
    /\ threads # << >>
    /\ \A i \in DOMAIN threads : threads[i].pc = "done" /\ threads[i].queued = 1

\* C17: a resolve served from the cache after a resolve of the same id fetched
\* and cached the image queues the same decoded image, of the same width and
\* height, as the one that fetched it
C17_CacheRoundTrip ==
    \A i, j \in DOMAIN threads :
        (/\ threads[i].req < threads[j].req
         /\ threads[i].video_id = threads[j].video_id
         /\ threads[i].fetches = 1
         /\ threads[i].pixbuf.kind = "pixbuf"
         /\ threads[i].pc = "done"
         /\ threads[j].hit)
           => /\ threads[j].pixbuf.img = threads[i].pixbuf.img
              /\ threads[j].pixbuf.w = threads[i].pixbuf.w
              /\ threads[j].pixbuf.h = threads[i].pixbuf.h

Abs(x) == IF x < 0 THEN 0 - x ELSE x

\* C18: the image the fetch path returns is at most 320 wide and 180 high,
\* and when the fetched image exceeds the box in either dimension the returned
\* one has the source's aspect ratio, each dimension rounded by at most half
\* a pixel
C18_FetchedImageFitsAndKeepsAspect ==
    \A i \in DOMAIN threads :
        LET t == threads[i]
        IN (t.pc = "idle_add" /\ ~t.hit /\ t.pixbuf.kind = "pixbuf") =>
              /\ t.pixbuf.w <= 320
              /\ t.pixbuf.h <= 180
              /\ (t.data.w > 320 \/ t.data.h > 180) =>
                    2 * Abs(t.pixbuf.w * t.data.h - t.pixbuf.h * t.data.w)
                       <= t.data.w + t.data.h

\* C19: on a catalog that holds only the record with url
\* https://x/watch?v=abc123, the first shuffle makes abc123 current with an
\* empty history, a second shuffle leaves abc123 current with history
\* [abc123], and a previous after that shows the same record and empties the
\* history
C19_SingleRowScenario ==
    /\ (events = 1 /\ Shuffled /\ ev.rows = {ExampleRow}) =>
          /\ current_video_id = <<"abc123">>
          /\ current_url = ExampleRow.url
          /\ previous_video_ids = << >>
    /\ (events = 2 /\ Shuffled /\ ev.rows = {ExampleRow}
                   /\ ev.current = <<"abc123">> /\ ev.history = << >>) =>
          /\ current_video_id = <<"abc123">>
          /\ previous_video_ids = << <<"abc123">> >>
    /\ (events = 3 /\ WentBack /\ ~ev.raised /\ ev.rows = {ExampleRow}
                   /\ ev.current = <<"abc123">>
                   /\ ev.history = << <<"abc123">> >>) =>
          /\ current_video_id = <<"abc123">>
          /\ current_title = ExampleRow.title
          /\ current_url = ExampleRow.url
          /\ widgets.title_lbl = ExampleRow.title
          /\ widgets.url_entry = ExampleRow.url
          /\ widgets.id_entry = <<"abc123">>
          /\ previous_video_ids = << >>

C19_Witness ==
    /\ events = 3
    /\ WentBack
    /\ ~ev.raised
    /\ ev.rows = {ExampleRow}
    /\ ev.current = <<"abc123">>
    /\ ev.history = << <<"abc123">> >>
    /\ current_video_id = <<"abc123">>
    /\ widgets.title_lbl = <<"Ep 1">>
    /\ previous_video_ids = << >>

\* the entries of a list have different ids
DistinctIds(entries) ==
    \A j, k \in DOMAIN entries : entries[j].id = entries[k].id => j = k

\* C20: the table never holds two rows with one id, and after a scrape that
\* returned, every id of its video list has exactly the row with the title and
\* url just scraped, whether the id was in the table before or not
C20_ScrapeInsertsOrReplaces ==
    /\ \A r1, r2 \in catalog : r1.id = r2.id => r1 = r2
    /\ (ev.op \in {"scrape_videos", "scrape_main"} /\ ~ev.raised
                                                     /\ DistinctIds(ev.entries)) =>
          \A k \in DOMAIN ev.entries :
              \E r \in catalog :
                  /\ r.id = ev.entries[k].id
                  /\ r.title = ev.entries[k].title
                  /\ r.url = <<"https://www.youtube.com/", WATCH>> \o ev.entries[k].id

\* the status messages the build and update error handlers leave
FailureMessages ==
    {"Build failed: Build error", "Build failed: Database connection error",
     "Update failed: Update error"}

\* C21: when scrape_videos finds no yt_dlp in a build or update thread started
\* from the window, the failure eventually shows as a status message of the
\* build or update error handler
C21_AbsentScraperIsReported ==
    (\E i \in DOMAIN db_threads : db_threads[i].pc = "exited")
       ~> (status \in FailureMessages)

\* the status messages _check_database_state leaves when the database file is
\* missing, when it holds no rows and when the COUNT query raises
StartupFailures ==
    {"Database not found - welcome screen will be shown",
     "Database is empty - welcome screen will be shown",
     "Database error"}

\* C22: a start on a missing, unreadable or empty database leaves no
\* connection and builds the welcome screen; while the welcome screen has no
\* connection, current and the history are empty and no thumbnail thread
\* exists, and a call of load_random changes none of them
C22_WelcomeWithoutConnection ==
    /\ [](view = "checked" => (status \in StartupFailures <=> ~conn))
    /\ [][view = "checked" /\ view' # "checked" /\ ~conn
             => view' = "welcome" /\ ~conn']_vars
    /\ [](view = "welcome" /\ ~conn
             => /\ current_video_id = EmptyStr
                /\ previous_video_ids = << >>
                /\ threads = << >>)
    /\ [][view = "welcome" /\ ~conn /\ ev'.op = "load_random"
             /\ events' = events + 1
             => UNCHANGED <<navVars, widgets, thumb, threads, idle, conn, view>>]_vars

\* a start on a missing database, then a call of load_random on the welcome
\* screen
C22_Witness ==
    /\ view = "welcome"
    /\ ~conn
    /\ status = "Database not found - welcome screen will be shown"
    /\ ev.op = "load_random"
    /\ events = 2

\* C23: extract_video_id returns the id for each of the forms watch?v=ID,
\* youtu.be/ID, embed/ID and v/ID of the url of a video: a shuffle that picks
\* a row with such a url makes the id of the row current
C23_IdFromEveryUrlForm ==
    \A r \in FormRows :
        (Shuffled /\ ev.row.url = r.url) =>
            /\ extract_video_id(r.url) = r.id
            /\ current_video_id = r.id

\* ids of one and of several tokens, none of them the marker or the ampersand
ScrapedIds == VideoIds \cup { <<"a", "-", "b">>, <<"b", "_">>, <<"v=", "a">> }

\* C24: extract_video_id applied to the url scrape_videos builds for an id
\* returns that id, and after a shuffle that picked a row of a scraped
\* catalog the current id is the primary key of the row with the current url
C24_UrlEncodesId ==
    /\ \A v \in ScrapedIds : extract_video_id(ScrapedRow(v).url) = v
    /\ (Shuffled /\ ev.rows # {}) =>
          \E r \in ev.rows :
             /\ r.url = current_url
             /\ r.title = current_title
             /\ r.id = current_video_id

\* a shuffle from a onto the row of b
C24_Witness ==
    /\ Shuffled
    /\ ev.rows = Rows
    /\ ev.current = <<"a">>
    /\ current_video_id = <<"b">>
    /\ current_url = <<"https://www.youtube.com/", WATCH, "b">>

\* the last request was an on_previous that found the row of the popped id
WentBackToRow == WentBack /\ ~ev.raised /\ ev.row # NoRow

\* the ids of a history
Ids(history) == { history[i] : i \in DOMAIN history }

\* C25 as stated: after every shuffle or previous that got a row and left a
\* non-empty current, the id that was current is in the history
C25_EveryNavigationPushesCurrent ==
    ((Shuffled \/ WentBackToRow) /\ ev.current # EmptyStr) =>
        ev.current \in Ids(previous_video_ids)

\* C25: after every shuffle that got a row and left a non-empty current, the
\* id that was current is the newest entry of the history; a previous that
\* got a row pushes nothing: it leaves the history it found without its
\* newest entry, in which the id that was current need not occur
C25_OnlyShufflePushesCurrent ==
    /\ (Shuffled /\ ev.current # EmptyStr) =>
          /\ previous_video_ids # << >>
          /\ Last(previous_video_ids) = ev.current
          /\ ev.current \in Ids(previous_video_ids)
    /\ WentBackToRow =>
          /\ previous_video_ids = SubSeq(ev.history, 1, Len(ev.history) - 1)
          /\ Len(previous_video_ids) < Len(ev.history)

\* a previous that left a current id which the history does not hold afterwards
C25_Witness ==
    /\ WentBackToRow
    /\ ev.current = <<"b">>
    /\ ev.history = << <<"a">> >>
    /\ current_video_id = <<"a">>
    /\ previous_video_ids = << >>

\* the build and update threads that have not ended
RunningDbThreads == { i \in DOMAIN db_threads : DbRunning(db_threads[i]) }

\* the last request was a build or an update request
DbRequested == ev.op \in {"_on_build_database", "_on_update_database"}

C27_UpdatingFlagIsReset ==
    is_updating_db ~> ~is_updating_db

\* C28: the history never holds the empty id, and a shuffle that found
\* current empty leaves the history as it was
C28_NoEmptyIdInHistory ==
    /\ EmptyStr \notin Ids(previous_video_ids)
    /\ (Shuffled /\ ev.current = EmptyStr) => previous_video_ids = ev.history

\* a shuffle after a pick from an emptied table, which left current empty
\* above a history that is not empty
C28_Witness ==
    /\ Shuffled
    /\ ev.current = EmptyStr
    /\ ev.history # << >>
    /\ previous_video_ids = ev.history
    /\ events >= 2

\* C29: once the main screen has handled a shuffle or a previous request, the
\* Previous button is sensitive exactly when the history is not empty
C29_PrevButtonTracksHistory ==
    (view = "main" /\ ev.op \in {"load_random", "on_previous"}) =>
        (widgets.prev_btn <=> previous_video_ids # << >>)

\* C30: once every thread for an id is over, if one of them queued an image
\* it had fetched from the network, the cache file of the id exists and holds
\* the bytes of that image
C30_FetchedEntrySurvives ==
    \A i \in DOMAIN threads :
        (/\ threads[i].pc = "done"
         /\ threads[i].fetches > 0
         /\ threads[i].pixbuf # None
         /\ \A j \in DOMAIN threads :
               threads[j].video_id = threads[i].video_id => IsOver(threads[j]))
           => /\ FileAt(PathOf(i)).kind = "file"
              /\ FileAt(PathOf(i)).bytes \in Responses(thumbnail_url(threads[i].video_id))
              /\ FileAt(PathOf(i)).bytes.kind = "jpeg"

=============================================================================
